---- MODULE Spec2Model ----
(***************************************************************************)
(* Model of scripts/generate_benchmark_charts.py: the scan of a Criterion  *)
(* result tree (parse_cross_store_benchmarks) and the derivations main()   *)
(* runs over the table it returns (overhead chart, speedup chart,          *)
(* raw-vs-zerocopy table, summary table).                                  *)
(*                                                                         *)
(* Times are integer nanoseconds; quotients are exact rationals <<n, d>>   *)
(* in lowest terms (floating-point rounding is not modelled).  A Python    *)
(* dict is a sequence of [k, v] pairs in insertion order.  The plotting    *)
(* calls are left out; what is kept of a chart is the series handed to it. *)
(***************************************************************************)
EXTENDS Integers, Sequences, FiniteSets, TLC

VARIABLES fs, pc, exc, benchmarks, insert_bars, overhead_chart, speedup_chart,
          raw_vs_zc_table, summary

vars == <<fs, pc, exc, benchmarks, insert_bars, overhead_chart, speedup_chart,
          raw_vs_zc_table, summary>>

(***************************************************************************)
(* Strings: Python compares and parses str by code point.                  *)
(***************************************************************************)
CodePoints(s) ==
    CASE s = "raw_sled" -> <<114, 97, 119, 95, 115, 108, 101, 100>>
      [] s = "raw_redb" -> <<114, 97, 119, 95, 114, 101, 100, 98>>
      [] s = "raw_redb_loop" -> <<114, 97, 119, 95, 114, 101, 100, 98, 95, 108, 111, 111, 112>>
      [] s = "wrapper_sled" -> <<119, 114, 97, 112, 112, 101, 114, 95, 115, 108, 101, 100>>
      [] s = "wrapper_redb_loop" -> <<119, 114, 97, 112, 112, 101, 114, 95, 114, 101, 100, 98, 95, 108, 111, 111, 112>>
      [] s = "wrapper_redb_bulk" -> <<119, 114, 97, 112, 112, 101, 114, 95, 114, 101, 100, 98, 95, 98, 117, 108, 107>>
      [] s = "zerocopy_redb" -> <<122, 101, 114, 111, 99, 111, 112, 121, 95, 114, 101, 100, 98>>
      [] s = "zerocopy_redb_bulk" -> <<122, 101, 114, 111, 99, 111, 112, 121, 95, 114, 101, 100, 98, 95, 98, 117, 108, 107>>
      [] s = "zerocopy_redb_txn" -> <<122, 101, 114, 111, 99, 111, 112, 121, 95, 114, 101, 100, 98, 95, 116, 120, 110>>
      [] s = "report" -> <<114, 101, 112, 111, 114, 116>>
      [] s = "raw_insert" -> <<114, 97, 119, 95, 105, 110, 115, 101, 114, 116>>
      [] s = "zerocopy_insert" -> <<122, 101, 114, 111, 99, 111, 112, 121, 95, 105, 110, 115, 101, 114, 116>>
      [] s = "zerocopy_bulk_insert" -> <<122, 101, 114, 111, 99, 111, 112, 121, 95, 98, 117, 108, 107, 95, 105, 110, 115, 101, 114, 116>>
      [] s = "raw_read" -> <<114, 97, 119, 95, 114, 101, 97, 100>>
      [] s = "Notes" -> <<78, 111, 116, 101, 115>>
      [] s = "insert" -> <<105, 110, 115, 101, 114, 116>>
      [] s = "read" -> <<114, 101, 97, 100>>
      [] s = "100" -> <<49, 48, 48>>
      [] s = "1000" -> <<49, 48, 48, 48>>
      [] s = "abc" -> <<97, 98, 99>>
      [] s = "-5" -> <<45, 53>>
      [] s = "0100" -> <<48, 49, 48, 48>>

IsDigitCp(c) == c >= 48 /\ c <= 57

AllDigits(cp) == Len(cp) > 0 /\ \A i \in 1..Len(cp) : IsDigitCp(cp[i])

\* str.isdigit(): non-empty and every character a digit.
isdigit(s) == AllDigits(CodePoints(s))

RECURSIVE DigitsValue(_, _, _)
DigitsValue(cp, i, acc) ==
    IF i > Len(cp) THEN acc ELSE DigitsValue(cp, i + 1, acc * 10 + (cp[i] - 48))

\* int() on the characters of its argument: an optional sign followed by
\* one or more decimal digits; anything else raises ValueError.
ParseInt(cp) ==
    LET signed == Len(cp) > 0 /\ cp[1] \in {43, 45}
        body   == IF signed THEN SubSeq(cp, 2, Len(cp)) ELSE cp
        ok     == AllDigits(body)
        mag    == IF ok THEN DigitsValue(body, 1, 0) ELSE 0
    IN  [raised |-> ~ok,
         val    |-> IF signed /\ cp[1] = 45 THEN 0 - mag ELSE mag]

int(s) == ParseInt(CodePoints(s))

RECURSIVE CpLess(_, _, _)
CpLess(a, b, i) ==
    IF i > Len(a) THEN i <= Len(b)
    ELSE IF i > Len(b) THEN FALSE
    ELSE IF a[i] # b[i] THEN a[i] < b[i]
    ELSE CpLess(a, b, i + 1)

\* str.__lt__: lexicographic on code points.
StrLess(a, b) == CpLess(CodePoints(a), CodePoints(b), 1)

CpContains(a, b) == \E i \in 0..(Len(a) - Len(b)) : SubSeq(a, i + 1, i + Len(b)) = b

\* `sub in s` for two str.
StrContains(s, sub) == CpContains(CodePoints(s), CodePoints(sub))

(***************************************************************************)
(* dict, in insertion order.                                               *)
(***************************************************************************)
EmptyDict == << >>

DictHas(d, k) == \E i \in 1..Len(d) : d[i].k = k

DictIndex(d, k) == CHOOSE i \in 1..Len(d) : d[i].k = k

DictAt(d, k) == d[DictIndex(d, k)].v

DictGet(d, k, default) == IF DictHas(d, k) THEN DictAt(d, k) ELSE default

\* d[k] = v: an existing key keeps its place, a new key goes last.
DictSet(d, k, v) ==
    IF DictHas(d, k)
    THEN [d EXCEPT ![DictIndex(d, k)] = [k |-> k, v |-> v]]
    ELSE Append(d, [k |-> k, v |-> v])

DictKeys(d) == [i \in 1..Len(d) |-> d[i].k]

KeySet(d) == {d[i].k : i \in 1..Len(d)}

\* sorted() of a sequence of str: ascending by code point.
RECURSIVE InsertStr(_, _)
InsertStr(s, x) ==
    IF s = << >> THEN <<x>>
    ELSE IF StrLess(x, Head(s)) THEN <<x>> \o s
    ELSE <<Head(s)>> \o InsertStr(Tail(s), x)

RECURSIVE sorted_str(_)
sorted_str(s) ==
    IF s = << >> THEN << >> ELSE InsertStr(sorted_str(Tail(s)), Head(s))

\* sorted() of a sequence of int.
RECURSIVE InsertInt(_, _)
InsertInt(s, x) ==
    IF s = << >> THEN <<x>>
    ELSE IF x < Head(s) THEN <<x>> \o s
    ELSE <<Head(s)>> \o InsertInt(Tail(s), x)

RECURSIVE sorted_int(_)
sorted_int(s) ==
    IF s = << >> THEN << >> ELSE InsertInt(sorted_int(Tail(s)), Head(s))

(***************************************************************************)
(* The result tree.  A directory entry is                                  *)
(*   [name, is_dir, file, entries]                                         *)
(* where file is the state of <entry>/new/estimates.json and entries is    *)
(* the listing of the entry in the order iterdir() yields it.  A group     *)
(* directory is [exists, entries].                                         *)
(***************************************************************************)
Absent == [state |-> "absent", json |-> EmptyDict]

\* present, but json.load cannot parse it
Malformed == [state |-> "malformed", json |-> EmptyDict]

Json(obj) == [state |-> "ok", json |-> obj]

\* {"mean": {"point_estimate": t}}
Est(t) == Json(<<[k |-> "mean", v |-> <<[k |-> "point_estimate", v |-> t]>>]>>)

\* {"median": {"point_estimate": t}}: no "mean" key
NoMean(t) == Json(<<[k |-> "median", v |-> <<[k |-> "point_estimate", v |-> t]>>]>>)

\* {"mean": {"standard_error": t}}: "mean" without "point_estimate"
NoPoint(t) == Json(<<[k |-> "mean", v |-> <<[k |-> "standard_error", v |-> t]>>]>>)

None == [is_none |-> TRUE, dict |-> EmptyDict]

PyDictOf(obj) == [is_none |-> FALSE, dict |-> obj]

\* truth value of `estimates`: None and {} are false.
Truthy(estimates) == ~estimates.is_none /\ Len(estimates.dict) > 0

\* json.JSONDecodeError is a subclass of ValueError.
IsValueError(e) == e \in {"ValueError", "JSONDecodeError"}

load_estimates(benchmark_path) ==
    IF benchmark_path.file.state = "absent"
    THEN [raised |-> "none", ret |-> None]
    ELSE IF benchmark_path.file.state = "malformed"
    THEN [raised |-> "JSONDecodeError", ret |-> None]
    ELSE [raised |-> "none", ret |-> PyDictOf(benchmark_path.file.json)]

extract_mean_time_ns(estimates) ==
    IF ~Truthy(estimates) THEN None
    ELSE [is_none |-> FALSE,
          val |-> DictGet(DictGet(estimates.dict, "mean", EmptyDict), "point_estimate", 0)]

\* Lines 89-96 and 154-161: the try statement in the body of
\* `for size_dir in impl_dir.iterdir()`.  An exception raised by int() or by
\* load_estimates() inside the try is caught when it is a ValueError.
SizeDirTry(sizes, size_dir) ==
    LET size == int(size_dir.name)
        estimates == load_estimates(size_dir)
        raised == IF size.raised THEN "ValueError" ELSE estimates.raised
    IN  IF raised # "none"
        THEN [raised |-> IF IsValueError(raised) THEN "none" ELSE raised, d |-> sizes]
        ELSE IF Truthy(estimates.ret)
        THEN [raised |-> "none",
              d |-> DictSet(sizes, size.val, extract_mean_time_ns(estimates.ret).val)]
        ELSE [raised |-> "none", d |-> sizes]

\* Lines 86-96 and 151-161 over the size mapping of one implementation.
RECURSIVE SizeDirLoop(_, _, _)
SizeDirLoop(sizes, entries, i) ==
    IF i > Len(entries) THEN [raised |-> "none", d |-> sizes]
    ELSE IF ~entries[i].is_dir THEN SizeDirLoop(sizes, entries, i + 1)
    ELSE LET r == SizeDirTry(sizes, entries[i])
         IN  IF r.raised # "none" THEN r
             ELSE SizeDirLoop(r.d, entries, i + 1)

\* Lines 79-96.
RECURSIVE InsertImplLoop(_, _, _)
InsertImplLoop(insert, entries, i) ==
    IF i > Len(entries) THEN [raised |-> "none", d |-> insert]
    ELSE LET impl_dir == entries[i]
             impl_name == impl_dir.name
         IN  IF ~impl_dir.is_dir THEN InsertImplLoop(insert, entries, i + 1)
             ELSE LET d1 == IF ~DictHas(insert, impl_name)
                            THEN DictSet(insert, impl_name, EmptyDict)
                            ELSE insert
                      sz == SizeDirLoop(DictAt(d1, impl_name), impl_dir.entries, 1)
                      d2 == DictSet(d1, impl_name, sz.d)
                  IN  IF sz.raised # "none" THEN [raised |-> sz.raised, d |-> d2]
                      ELSE InsertImplLoop(d2, entries, i + 1)

\* Lines 77-96.
ScanInsert(insert_dir) ==
    IF insert_dir.exists THEN InsertImplLoop(EmptyDict, insert_dir.entries, 1)
    ELSE [raised |-> "none", d |-> EmptyDict]

\* Lines 101-107 (and 112-118, 123-129): a group without size parameter.
\* An exception of load_estimates leaves the loop and the function.
RECURSIVE FixedImplLoop(_, _, _)
FixedImplLoop(d, entries, i) ==
    IF i > Len(entries) THEN [raised |-> "none", d |-> d]
    ELSE LET impl_dir == entries[i]
         IN  IF ~impl_dir.is_dir \/ impl_dir.name \in {"report"}
             THEN FixedImplLoop(d, entries, i + 1)
             ELSE LET estimates == load_estimates(impl_dir)
                  IN  IF estimates.raised # "none"
                      THEN [raised |-> estimates.raised, d |-> d]
                      ELSE IF Truthy(estimates.ret)
                      THEN FixedImplLoop(
                               DictSet(d, impl_dir.name, extract_mean_time_ns(estimates.ret).val),
                               entries, i + 1)
                      ELSE FixedImplLoop(d, entries, i + 1)

\* The loop entered without `if get_dir.exists()`: iterdir() of a directory
\* that is not there raises FileNotFoundError.
ScanFixedUnguarded(group_dir) ==
    IF group_dir.exists THEN FixedImplLoop(EmptyDict, group_dir.entries, 1)
    ELSE [raised |-> "FileNotFoundError", d |-> EmptyDict]

ScanFixed(group_dir) ==
    IF group_dir.exists THEN FixedImplLoop(EmptyDict, group_dir.entries, 1)
    ELSE [raised |-> "none", d |-> EmptyDict]

\* A value of benchmarks['raw_vs_zerocopy']: a float or a dict of sizes.
PyFloat(t) == [is_dict |-> FALSE, t |-> t, d |-> EmptyDict]

PyDict(d) == [is_dict |-> TRUE, t |-> 0, d |-> d]

\* Lines 141-145.
has_sizes(impl_dir) ==
    \E i \in 1..Len(impl_dir.entries) :
        impl_dir.entries[i].is_dir /\ isdigit(impl_dir.entries[i].name)

\* Lines 135-166.
RECURSIVE RvzImplLoop(_, _, _)
RvzImplLoop(d, entries, i) ==
    IF i > Len(entries) THEN [raised |-> "none", d |-> d]
    ELSE LET impl_dir == entries[i]
             impl_name == impl_dir.name
         IN  IF ~impl_dir.is_dir \/ impl_name \in {"report"}
             THEN RvzImplLoop(d, entries, i + 1)
             ELSE IF has_sizes(impl_dir)
             THEN LET d1 == IF ~DictHas(d, impl_name)
                            THEN DictSet(d, impl_name, PyDict(EmptyDict))
                            ELSE d
                      sz == SizeDirLoop(DictAt(d1, impl_name).d, impl_dir.entries, 1)
                      d2 == DictSet(d1, impl_name, PyDict(sz.d))
                  IN  IF sz.raised # "none" THEN [raised |-> sz.raised, d |-> d2]
                      ELSE RvzImplLoop(d2, entries, i + 1)
             ELSE LET estimates == load_estimates(impl_dir)
                  IN  IF estimates.raised # "none"
                      THEN [raised |-> estimates.raised, d |-> d]
                      ELSE IF Truthy(estimates.ret)
                      THEN RvzImplLoop(
                               DictSet(d, impl_name,
                                       PyFloat(extract_mean_time_ns(estimates.ret).val)),
                               entries, i + 1)
                      ELSE RvzImplLoop(d, entries, i + 1)

ScanRvz(rawvszc_dir) ==
    IF rawvszc_dir.exists THEN RvzImplLoop(EmptyDict, rawvszc_dir.entries, 1)
    ELSE [raised |-> "none", d |-> EmptyDict]

NoBenchmarks ==
    [insert |-> EmptyDict, get |-> EmptyDict, bulk |-> EmptyDict,
     secondary_query |-> EmptyDict, raw_vs_zerocopy |-> EmptyDict]

\* Lines 67-168.  The groups are scanned in the order of the source; the
\* first exception that leaves a loop leaves the function.
parse_cross_store_benchmarks(tree) ==
    LET ins == ScanInsert(tree.cross_store_insert)
        get == ScanFixed(tree.cross_store_get)
        blk == ScanFixed(tree.cross_store_bulk)
        sec == ScanFixed(tree.cross_store_secondary_query)
        rvz == ScanRvz(tree.redb_raw_vs_zerocopy)
        raised == IF ins.raised # "none" THEN ins.raised
                  ELSE IF get.raised # "none" THEN get.raised
                  ELSE IF blk.raised # "none" THEN blk.raised
                  ELSE IF sec.raised # "none" THEN sec.raised
                  ELSE rvz.raised
    IN  [raised |-> raised,
         ret |-> IF raised # "none" THEN NoBenchmarks
                 ELSE [insert |-> ins.d, get |-> get.d, bulk |-> blk.d,
                       secondary_query |-> sec.d, raw_vs_zerocopy |-> rvz.d]]

(***************************************************************************)
(* Numbers.  A quotient is the pair <<n, d>> with d > 0 in lowest terms.   *)
(***************************************************************************)
Abs(x) == IF x < 0 THEN 0 - x ELSE x

RECURSIVE GCD(_, _)
GCD(a, b) == IF b = 0 THEN a ELSE GCD(b, a % b)

Rat(n, d) ==
    LET g == GCD(Abs(n), Abs(d))
        sgn == IF d < 0 THEN 0 - 1 ELSE 1
    IN  <<(sgn * n) \div g, (sgn * d) \div g>>

FromInt(n) == <<n, 1>>

RatSub(x, y) == Rat(x[1] * y[2] - y[1] * x[2], x[2] * y[2])

RatMul(x, y) == Rat(x[1] * y[1], x[2] * y[2])

\* x / y: raises ZeroDivisionError when y == 0.
TrueDiv(x, y) ==
    IF y[1] = 0 THEN [raised |-> "ZeroDivisionError", val |-> FromInt(0)]
    ELSE [raised |-> "none", val |-> Rat(x[1] * y[2], x[2] * y[1])]

\* Lines 23-50: the keys of COLORS.
COLORS ==
    {"sled_raw", "sled_raw_loop", "sled_raw_batch", "sled_wrapper", "sled_wrapper_loop",
     "redb_raw", "redb_raw_txn", "redb_raw_loop", "redb_raw_insert",
     "redb_raw_read_per_txn", "redb_raw_read_single_txn",
     "redb_wrapper_loop", "redb_wrapper_bulk",
     "redb_zerocopy_loop", "redb_zerocopy_bulk", "redb_zerocopy_txn",
     "redb_zerocopy_insert", "redb_zerocopy_bulk_insert", "redb_zerocopy_read"}

RECURSIVE SeqToSet(_)
SeqToSet(s) == IF s = << >> THEN {} ELSE {Head(s)} \cup SeqToSet(Tail(s))

\* A set of int as a sequence (the order of list(set) is not specified;
\* every use sorts it).
RECURSIVE SetToSeq(_)
SetToSeq(S) ==
    IF S = {} THEN << >>
    ELSE LET x == CHOOSE y \in S : TRUE IN <<x>> \o SetToSeq(S \ {x})

\* The union of the size keys of the implementations of a sized group.
AllSizes(data) == UNION {KeySet(data[i].v) : i \in 1..Len(data)}

(***************************************************************************)
(* generate_insert_comparison_bar_chart, lines 170-237.                    *)
(***************************************************************************)
Min(a, b) == IF a < b THEN a ELSE b

\* Lines 205-210: the bars of one subplot.
RECURSIVE InsertBars(_, _, _)
InsertBars(data, size, i) ==
    IF i > Len(data) THEN << >>
    ELSE (IF DictHas(data[i].v, size)
          THEN <<[impl |-> data[i].k,
                  time_ms |-> TrueDiv(FromInt(DictAt(data[i].v, size)), FromInt(1000000)).val]>>
          ELSE << >>) \o InsertBars(data, size, i + 1)

generate_insert_comparison_bar_chart(data) ==
    LET sizes == sorted_int(SetToSeq(AllSizes(data)))
        n_sizes == Len(sizes)
        n_cols == Min(3, n_sizes)
    IN  IF n_cols = 0
        THEN \* line 181: (n_sizes + n_cols - 1) // n_cols
             [raised |-> "ZeroDivisionError", ret |-> << >>]
        ELSE [raised |-> "none",
              ret |-> [idx \in 1..n_sizes |->
                          [size |-> sizes[idx], bars |-> InsertBars(data, sizes[idx], 1)]]]

(***************************************************************************)
(* generate_overhead_percentage_chart, lines 239-410.                      *)
(***************************************************************************)
\* calc_overhead dividing by the wrapper time
calc_overhead_by_wrapper(wrapper_time, raw_time) ==
    IF raw_time = 0 \/ wrapper_time = 0 THEN FromInt(0)
    ELSE RatMul(TrueDiv(FromInt(wrapper_time - raw_time), FromInt(wrapper_time)).val,
                FromInt(100))

calc_overhead(wrapper_time, raw_time) ==
    IF raw_time = 0 THEN FromInt(0)
    ELSE RatMul(TrueDiv(FromInt(wrapper_time - raw_time), FromInt(raw_time)).val, FromInt(100))

\* str(size) of the two sizes the panels are drawn for.
str(size) == IF size = 100 THEN "100" ELSE "1000"

\* The comparators of the two insert panels with the baseline of each.
InsertComparators(size) ==
    IF size = 100
    THEN <<[impl |-> "wrapper_sled", base |-> "raw_sled"],
           [impl |-> "wrapper_redb_loop", base |-> "raw_redb"],
           [impl |-> "wrapper_redb_bulk", base |-> "raw_redb"],
           [impl |-> "zerocopy_redb", base |-> "raw_redb"]>>
    ELSE <<[impl |-> "wrapper_sled", base |-> "raw_sled"],
           [impl |-> "wrapper_redb_loop", base |-> "raw_redb"],
           [impl |-> "wrapper_redb_bulk", base |-> "raw_redb"],
           [impl |-> "zerocopy_redb_bulk", base |-> "raw_redb"]>>

\* Lines 259-281 (307-329): the `if` statements of one insert panel.  Each
\* appends its overhead, then looks its color up with COLORS[impl].
RECURSIVE InsertOverheadRows(_, _, _, _, _)
InsertOverheadRows(insert, size, comps, i, rows) ==
    IF i > Len(comps) THEN [raised |-> "none", key |-> "", rows |-> rows]
    ELSE LET c == comps[i]
         IN  IF DictHas(insert, c.impl) /\ DictHas(DictAt(insert, c.impl), size)
             THEN LET row == [impl |-> c.impl, base |-> c.base,
                              overhead |-> calc_overhead(
                                  DictAt(DictAt(insert, c.impl), size),
                                  DictAt(DictAt(insert, c.base), size))]
                  IN  IF c.impl \notin COLORS
                      THEN [raised |-> "KeyError", key |-> c.impl, rows |-> Append(rows, row)]
                      ELSE InsertOverheadRows(insert, size, comps, i + 1, Append(rows, row))
             ELSE InsertOverheadRows(insert, size, comps, i + 1, rows)

\* Lines 250-295 (size 100) and 298-342 (size 1000).
InsertOverheadPanel(insert, size) ==
    IF DictHas(DictGet(insert, "raw_sled", EmptyDict), size)
    THEN \* line 253 (301): data['insert']['raw_redb'][size]
         IF ~DictHas(insert, "raw_redb")
         THEN [raised |-> "KeyError", key |-> "raw_redb", rows |-> << >>]
         ELSE IF ~DictHas(DictAt(insert, "raw_redb"), size)
         THEN [raised |-> "KeyError", key |-> str(size), rows |-> << >>]
         ELSE InsertOverheadRows(insert, size, InsertComparators(size), 1, << >>)
    ELSE [raised |-> "none", key |-> "", rows |-> << >>]

\* Lines 353-361: COLORS[impl]; lines 385-393: COLORS.get(impl, '#999999').
RECURSIVE FixedOverheadRows(_, _, _, _, _, _)
FixedOverheadRows(data, base, comps, strict, i, rows) ==
    IF i > Len(comps) THEN [raised |-> "none", key |-> "", rows |-> rows]
    ELSE IF DictHas(data, comps[i])
    THEN LET row == [impl |-> comps[i], base |-> base,
                     overhead |-> calc_overhead(DictAt(data, comps[i]), DictAt(data, base))]
         IN  IF strict /\ comps[i] \notin COLORS
             THEN [raised |-> "KeyError", key |-> comps[i], rows |-> Append(rows, row)]
             ELSE FixedOverheadRows(data, base, comps, strict, i + 1, Append(rows, row))
    ELSE FixedOverheadRows(data, base, comps, strict, i + 1, rows)

\* Lines 346-374 and 378-406.
FixedOverheadPanel(data, base, comps, strict) ==
    IF DictHas(data, base) THEN FixedOverheadRows(data, base, comps, strict, 1, << >>)
    ELSE [raised |-> "none", key |-> "", rows |-> << >>]

NoOverheadChart ==
    [insert_100 |-> << >>, insert_1000 |-> << >>, get |-> << >>, secondary_query |-> << >>]

\* The four panels in the order of the source; the panels after a raising
\* one are not reached.  What is kept of a panel is its list of overheads
\* with the implementation and baseline of each.
generate_overhead_percentage_chart(data) ==
    LET p1 == InsertOverheadPanel(data.insert, 100)
        p2 == InsertOverheadPanel(data.insert, 1000)
        p3 == FixedOverheadPanel(data.get, "raw_redb",
                  <<"wrapper_redb_loop", "wrapper_redb_bulk", "zerocopy_redb">>, TRUE)
        p4 == FixedOverheadPanel(data.secondary_query, "raw_redb_loop",
                  <<"wrapper_redb_loop", "wrapper_redb_bulk", "zerocopy_redb_txn">>, FALSE)
    IN  IF p1.raised # "none"
        THEN [raised |-> p1.raised, key |-> p1.key, panels |-> [NoOverheadChart EXCEPT !.insert_100 = p1.rows]]
        ELSE IF p2.raised # "none"
        THEN [raised |-> p2.raised, key |-> p2.key,
              panels |-> [NoOverheadChart EXCEPT !.insert_100 = p1.rows,
                                                 !.insert_1000 = p2.rows]]
        ELSE IF p3.raised # "none"
        THEN [raised |-> p3.raised, key |-> p3.key,
              panels |-> [insert_100 |-> p1.rows, insert_1000 |-> p2.rows,
                          get |-> p3.rows, secondary_query |-> << >>]]
        ELSE [raised |-> p4.raised, key |-> p4.key,
              panels |-> [insert_100 |-> p1.rows, insert_1000 |-> p2.rows,
                          get |-> p3.rows, secondary_query |-> p4.rows]]

(***************************************************************************)
(* generate_speedup_comparison, lines 412-468.                             *)
(***************************************************************************)
\* Lines 423-430: `for size in sizes`.  speedups[i] is the bar of sizes[i].
RECURSIVE InsertSpeedups(_, _, _, _)
InsertSpeedups(insert, sizes, i, speedups) ==
    IF i > Len(sizes) THEN [raised |-> "none", speedups |-> speedups]
    ELSE LET size == sizes[i]
             loop == DictAt(insert, "wrapper_redb_loop")
             bulk == DictAt(insert, "wrapper_redb_bulk")
         IN  IF DictHas(loop, size) /\ DictHas(bulk, size)
             THEN LET speedup == TrueDiv(FromInt(DictAt(loop, size)), FromInt(DictAt(bulk, size)))
                  IN  IF speedup.raised # "none"
                      THEN [raised |-> speedup.raised, speedups |-> speedups]
                      ELSE InsertSpeedups(insert, sizes, i + 1,
                               Append(speedups, [size |-> size, speedup |-> speedup.val]))
             ELSE InsertSpeedups(insert, sizes, i + 1,
                      Append(speedups, [size |-> size, speedup |-> FromInt(0)]))

generate_speedup_comparison(data) ==
    LET ins == IF DictHas(data.insert, "wrapper_redb_loop")
                  /\ DictHas(data.insert, "wrapper_redb_bulk")
               THEN InsertSpeedups(data.insert, <<100, 1000>>, 1, << >>)
               ELSE [raised |-> "none", speedups |-> << >>]
        get == IF DictHas(data.get, "wrapper_redb_loop") /\ DictHas(data.get, "wrapper_redb_bulk")
               THEN LET speedup == TrueDiv(FromInt(DictAt(data.get, "wrapper_redb_loop")),
                                           FromInt(DictAt(data.get, "wrapper_redb_bulk")))
                    IN  [raised |-> speedup.raised,
                         speedups |-> IF speedup.raised # "none" THEN << >>
                                      ELSE <<[speedup |-> speedup.val]>>]
               ELSE [raised |-> "none", speedups |-> << >>]
    IN  IF ins.raised # "none"
        THEN [raised |-> ins.raised, insert |-> ins.speedups, get |-> << >>]
        ELSE [raised |-> get.raised, insert |-> ins.speedups, get |-> get.speedups]

(***************************************************************************)
(* generate_absolute_performance_table, lines 470-514.                     *)
(***************************************************************************)
\* the insert lines in the order of the dict, without sorted()
InsertSummaryRowsUnsorted(insert) ==
    LET impls == DictKeys(insert)
    IN  [i \in 1..Len(impls) |->
            [impl |-> impls[i],
             time_100 |-> TrueDiv(FromInt(DictGet(DictAt(insert, impls[i]), 100, 0)),
                                  FromInt(1000000)).val,
             time_1000 |-> TrueDiv(FromInt(DictGet(DictAt(insert, impls[i]), 1000, 0)),
                                   FromInt(1000000)).val]]

\* Lines 481-484: one line per implementation, a cell for 100 and for 1000.
InsertSummaryRows(insert) ==
    LET impls == sorted_str(DictKeys(insert))
    IN  [i \in 1..Len(impls) |->
            [impl |-> impls[i],
             time_100 |-> TrueDiv(FromInt(DictGet(DictAt(insert, impls[i]), 100, 0)),
                                  FromInt(1000000)).val,
             time_1000 |-> TrueDiv(FromInt(DictGet(DictAt(insert, impls[i]), 1000, 0)),
                                   FromInt(1000000)).val]]

\* Lines 491-493, 500-502, 509-511.
FixedSummaryRows(data, divisor) ==
    LET impls == sorted_str(DictKeys(data))
    IN  [i \in 1..Len(impls) |->
            [impl |-> impls[i],
             time |-> TrueDiv(FromInt(DictAt(data, impls[i])), FromInt(divisor)).val]]

generate_absolute_performance_table(data) ==
    [insert |-> InsertSummaryRows(data.insert),
     get |-> FixedSummaryRows(data.get, 1000),
     secondary_query |-> FixedSummaryRows(data.secondary_query, 1000),
     bulk |-> FixedSummaryRows(data.bulk, 1000000),
     raw_vs_zerocopy |-> << >>]

(***************************************************************************)
(* generate_raw_vs_zerocopy_comparison, lines 516-620.                     *)
(***************************************************************************)
\* Lines 526-529 (560-563): the sized implementations whose name holds `word`.
RECURSIVE CollectImpls(_, _, _)
CollectImpls(data, word, i) ==
    IF i > Len(data) THEN EmptyDict
    ELSE (IF StrContains(data[i].k, word) /\ data[i].v.is_dict
          THEN <<[k |-> data[i].k, v |-> data[i].v.d]>>
          ELSE << >>) \o CollectImpls(data, word, i + 1)

\* Lines 615-616: the overhead of the table, on times in ms.
TableOverhead(time, raw_time) ==
    IF raw_time[1] > 0
    THEN RatMul(TrueDiv(RatSub(time, raw_time), raw_time).val, FromInt(100))
    ELSE FromInt(0)

\* Lines 610-618.
OverheadTableRows(insert_impls) ==
    LET raw_data == DictGet(insert_impls, "raw_insert", EmptyDict)
        zc_data == DictGet(insert_impls, "zerocopy_insert", EmptyDict)
        zc_bulk_data == DictGet(insert_impls, "zerocopy_bulk_insert", EmptyDict)
        sizes == sorted_int(DictKeys(raw_data))
    IN  [i \in 1..Len(sizes) |->
            LET size == sizes[i]
                raw_time == TrueDiv(FromInt(DictAt(raw_data, size)), FromInt(1000000)).val
                zc_time == TrueDiv(FromInt(DictGet(zc_data, size, 0)), FromInt(1000000)).val
                zc_bulk_time ==
                    TrueDiv(FromInt(DictGet(zc_bulk_data, size, 0)), FromInt(1000000)).val
            IN  [size |-> size, raw_time |-> raw_time, zc_time |-> zc_time,
                 zc_bulk_time |-> zc_bulk_time,
                 loop_overhead |-> TableOverhead(zc_time, raw_time),
                 bulk_overhead |-> TableOverhead(zc_bulk_time, raw_time)]]

\* The return value: None when there is no data, else the lines of the
\* overhead table (the heading line is always there, so the str is true).
generate_raw_vs_zerocopy_comparison(data) ==
    IF Len(data) = 0 THEN [is_none |-> TRUE, rows |-> << >>]
    ELSE LET insert_impls == CollectImpls(data, "insert", 1)
         IN  [is_none |-> FALSE,
              rows |-> IF Len(insert_impls) > 0 /\ DictHas(insert_impls, "raw_insert")
                       THEN OverheadTableRows(insert_impls)
                       ELSE << >>]

(***************************************************************************)
(* The result trees the scan is run on.  One group directory is varied at  *)
(* a time; the others are absent, but for cross_store_insert, which holds  *)
(* one estimate when it is not the varied one (main() does not get past    *)
(* the insert bar chart without a size).                                   *)
(***************************************************************************)
\* most directory entries in the varied tree of a sized group
MaxEntries == 4

\* most entries in the varied directory of a group without sizes
MaxImpls == 2

Times == {0, 1000000, 1200000}

Files ==
    {Absent, Malformed, NoMean(1000000), NoPoint(1000000)} \cup {Est(t) : t \in Times}

Dir(name, file, entries) ==
    [name |-> name, is_dir |-> TRUE, file |-> file, entries |-> entries]

\* a plain file in a listing
NonDir(name) == [name |-> name, is_dir |-> FALSE, file |-> Absent, entries |-> << >>]

\* The entries a size level is listed from.
SizeEntries ==
    {Dir("100", f, << >>) : f \in Files}
    \cup {Dir("1000", f, << >>) : f \in {Absent, Est(1200000)}}
    \cup {Dir("abc", Est(1000000), << >>), Dir("-5", Est(1000000), << >>), NonDir("Notes")}
    \cup {Dir("0100", Est(1200000), << >>)}

NamesOf(listing) == {listing[i].name : i \in 1..Len(listing)}

\* The listings of exactly n entries of S, no name twice, in every order.
RECURSIVE ListingsOfLen(_, _)
ListingsOfLen(S, n) ==
    IF n = 0 THEN {<< >>}
    ELSE UNION {{Append(l, e) : e \in {x \in S : x.name \notin NamesOf(l)}} :
                    l \in ListingsOfLen(S, n - 1)}

ListingsUpTo(S, n) == UNION {ListingsOfLen(S, k) : k \in 0..n}

InsertImplNames == {"raw_sled", "raw_redb", "wrapper_redb_loop", "wrapper_redb_bulk", "report"}

\* The implementation-level entries of cross_store_insert that, with their
\* size entries, count w entries.
InsertEntriesOfWeight(w) ==
    {Dir(n, Absent, l) : n \in InsertImplNames, l \in ListingsOfLen(SizeEntries, w - 1)}
    \cup (IF w = 1 THEN {NonDir("Notes")} ELSE {})

RvzImplNames == {"raw_insert", "zerocopy_insert", "report"}

\* redb_raw_vs_zerocopy: an implementation directory holds its estimate
\* itself, or size directories, or both.
RvzEntriesOfWeight(w) ==
    IF w = 1
    THEN {Dir(n, f, << >>) : n \in RvzImplNames, f \in {Absent, Malformed, Est(1000000)}}
    ELSE {Dir(n, f, l) : n \in RvzImplNames, f \in {Absent, Est(1000000)},
                         l \in ListingsOfLen(SizeEntries, w - 1)}

\* The listings of a group directory that count n entries in all, no
\* implementation name twice, in every order.
RECURSIVE InsertListingsOfWeight(_)
InsertListingsOfWeight(n) ==
    IF n = 0 THEN {<< >>}
    ELSE UNION {{<<p[1]>> \o p[2] :
                    p \in {q \in InsertEntriesOfWeight(w) \X InsertListingsOfWeight(n - w) :
                              q[1].name \notin NamesOf(q[2])}} : w \in 1..n}

InsertListings == UNION {InsertListingsOfWeight(n) : n \in 0..MaxEntries}

RECURSIVE RvzListingsOfWeight(_)
RvzListingsOfWeight(n) ==
    IF n = 0 THEN {<< >>}
    ELSE UNION {{<<p[1]>> \o p[2] :
                    p \in {q \in RvzEntriesOfWeight(w) \X RvzListingsOfWeight(n - w) :
                              q[1].name \notin NamesOf(q[2])}} : w \in 1..n}

RvzListings == UNION {RvzListingsOfWeight(n) : n \in 0..MaxEntries}

FixedImplNames(group) ==
    IF group = "get" THEN {"raw_redb", "wrapper_redb_loop", "wrapper_redb_bulk", "report"}
    ELSE IF group = "secondary_query"
    THEN {"raw_redb_loop", "wrapper_redb_loop", "zerocopy_redb_txn", "report"}
    ELSE {"raw_redb", "wrapper_redb_bulk", "report"}

FixedEntries(group) ==
    {Dir(n, f, << >>) : n \in FixedImplNames(group), f \in Files} \cup {NonDir("Notes")}

NoDir == [exists |-> FALSE, entries |-> << >>]

GroupDir(listing) == [exists |-> TRUE, entries |-> listing]

BaseInsert == GroupDir(<<Dir("raw_redb", Absent, <<Dir("100", Est(1000000), << >>)>>)>>)

BaseTree ==
    [cross_store_insert |-> BaseInsert, cross_store_get |-> NoDir,
     cross_store_bulk |-> NoDir, cross_store_secondary_query |-> NoDir,
     redb_raw_vs_zerocopy |-> NoDir]

\* The trees: the choice of the varied group and of its listing.
IsTree(tree) ==
    \/ tree = [BaseTree EXCEPT !.cross_store_insert = NoDir]
    \/ \E l \in InsertListings : tree = [BaseTree EXCEPT !.cross_store_insert = GroupDir(l)]
    \/ \E l \in ListingsUpTo(FixedEntries("get"), MaxImpls) :
           tree = [BaseTree EXCEPT !.cross_store_get = GroupDir(l)]
    \/ \E l \in ListingsUpTo(FixedEntries("bulk"), MaxImpls) :
           tree = [BaseTree EXCEPT !.cross_store_bulk = GroupDir(l)]
    \/ \E l \in ListingsUpTo(FixedEntries("secondary_query"), MaxImpls) :
           tree = [BaseTree EXCEPT !.cross_store_secondary_query = GroupDir(l)]
    \/ \E l \in RvzListings : tree = [BaseTree EXCEPT !.redb_raw_vs_zerocopy = GroupDir(l)]

(***************************************************************************)
(* main(), lines 622-651: one action per call, in the order of the source. *)
(* An exception that leaves a call leaves main().                          *)
(***************************************************************************)
NoException == [type |-> "none", at |-> "none", key |-> ""]

NoSpeedupChart == [insert |-> << >>, get |-> << >>]

NoTable == [is_none |-> TRUE, rows |-> << >>]

NoSummary ==
    [insert |-> << >>, get |-> << >>, secondary_query |-> << >>, bulk |-> << >>,
     raw_vs_zerocopy |-> << >>]

Init ==
    /\ IsTree(fs)
    /\ pc = "parse"
    /\ exc = NoException
    /\ benchmarks = NoBenchmarks
    /\ insert_bars = << >>
    /\ overhead_chart = NoOverheadChart
    /\ speedup_chart = NoSpeedupChart
    /\ raw_vs_zc_table = NoTable
    /\ summary = NoSummary

\* The exception, the call of main() it left, and for a KeyError its key.
Raise(type, key) == pc' = "raised" /\ exc' = [type |-> type, at |-> pc, key |-> key]

\* line 624
Parse ==
    /\ pc = "parse"
    /\ LET r == parse_cross_store_benchmarks(fs)
       IN  IF r.raised # "none"
           THEN Raise(r.raised, "") /\ UNCHANGED benchmarks
           ELSE pc' = "insert_bars" /\ benchmarks' = r.ret /\ UNCHANGED exc
    /\ UNCHANGED <<fs, insert_bars, overhead_chart, speedup_chart, raw_vs_zc_table, summary>>

\* line 627
InsertBarChart ==
    /\ pc = "insert_bars"
    /\ LET r == generate_insert_comparison_bar_chart(benchmarks.insert)
       IN  /\ insert_bars' = r.ret
           /\ IF r.raised # "none" THEN Raise(r.raised, "")
              ELSE pc' = "overhead" /\ UNCHANGED exc
    /\ UNCHANGED <<fs, benchmarks, overhead_chart, speedup_chart, raw_vs_zc_table, summary>>

\* line 630
OverheadChart ==
    /\ pc = "overhead"
    /\ LET r == generate_overhead_percentage_chart(benchmarks)
       IN  /\ overhead_chart' = r.panels
           /\ IF r.raised # "none" THEN Raise(r.raised, r.key)
              ELSE pc' = "speedup" /\ UNCHANGED exc
    /\ UNCHANGED <<fs, benchmarks, insert_bars, speedup_chart, raw_vs_zc_table, summary>>

\* line 633
SpeedupChart ==
    /\ pc = "speedup"
    /\ LET r == generate_speedup_comparison(benchmarks)
       IN  /\ speedup_chart' = [insert |-> r.insert, get |-> r.get]
           /\ IF r.raised # "none" THEN Raise(r.raised, "")
              ELSE pc' = "raw_vs_zc" /\ UNCHANGED exc
    /\ UNCHANGED <<fs, benchmarks, insert_bars, overhead_chart, raw_vs_zc_table, summary>>

\* line 636
RawVsZerocopy ==
    /\ pc = "raw_vs_zc"
    /\ raw_vs_zc_table' = generate_raw_vs_zerocopy_comparison(benchmarks.raw_vs_zerocopy)
    /\ pc' = "summary"
    /\ UNCHANGED <<fs, exc, benchmarks, insert_bars, overhead_chart, speedup_chart, summary>>

\* line 639
SummaryTable ==
    /\ pc = "summary"
    /\ summary' = generate_absolute_performance_table(benchmarks)
    /\ pc' = "append"
    /\ UNCHANGED <<fs, exc, benchmarks, insert_bars, overhead_chart, speedup_chart,
                   raw_vs_zc_table>>

\* lines 642-644
AppendTable ==
    /\ pc = "append"
    /\ summary' = IF ~raw_vs_zc_table.is_none
                  THEN [summary EXCEPT !.raw_vs_zerocopy = raw_vs_zc_table.rows]
                  ELSE summary
    /\ pc' = "done"
    /\ UNCHANGED <<fs, exc, benchmarks, insert_bars, overhead_chart, speedup_chart,
                   raw_vs_zc_table>>

Next ==
    \/ Parse
    \/ InsertBarChart
    \/ OverheadChart
    \/ SpeedupChart
    \/ RawVsZerocopy
    \/ SummaryTable
    \/ AppendTable

Spec == Init /\ [][Next]_vars

(***************************************************************************)
(* Properties.                                                             *)
(***************************************************************************)
Groups == {"insert", "get", "bulk", "secondary_query", "raw_vs_zerocopy"}

Range(seq) == {seq[i] : i \in 1..Len(seq)}

\* The implementation directories of a group directory.
ImplDirs(group_dir) == {e \in Range(group_dir.entries) : e.is_dir /\ e.name # "report"}

\* The size directories of an implementation directory.
SizeDirs(impl_dir) == {e \in Range(impl_dir.entries) : e.is_dir /\ isdigit(e.name)}

\* table[impl][size] exists
HasTime(table, impl, size) == DictHas(table, impl) /\ DictHas(DictAt(table, impl), size)

\* The size mapping of a raw_vs_zerocopy implementation ({} when it has none).
SizedRvz(impl) ==
    IF DictHas(benchmarks.raw_vs_zerocopy, impl) /\ DictAt(benchmarks.raw_vs_zerocopy, impl).is_dict
    THEN DictAt(benchmarks.raw_vs_zerocopy, impl).d
    ELSE EmptyDict

ParseReturned == pc \notin {"parse", "raised"} \/ (pc = "raised" /\ exc.at # "parse")

OverheadDone ==
    pc \in {"speedup", "raw_vs_zc", "summary", "append", "done"}
    \/ (pc = "raised" /\ exc.at = "overhead")

SpeedupDone ==
    pc \in {"raw_vs_zc", "summary", "append", "done"} \/ (pc = "raised" /\ exc.at = "speedup")

\* An estimates.json the scan comes to that is present and unparsable.
MalformedEstimate(tree) ==
    \/ \E impl \in ImplDirs(tree.cross_store_insert) :
           \E size_dir \in SizeDirs(impl) : size_dir.file.state = "malformed"
    \/ \E g \in {"cross_store_get", "cross_store_bulk", "cross_store_secondary_query"} :
           \E impl \in ImplDirs(tree[g]) : impl.file.state = "malformed"
    \/ \E impl \in ImplDirs(tree.redb_raw_vs_zerocopy) :
           IF SizeDirs(impl) # {}
           THEN \E size_dir \in SizeDirs(impl) : size_dir.file.state = "malformed"
           ELSE impl.file.state = "malformed"

\* C1: once parse_cross_store_benchmarks has run on a tree that holds an
\* unparsable estimates.json, in a group with sizes or without, the scan has
\* ended with an error that reached main(); it never goes on as for an absent
\* file.
C1_MalformedEstimateAborts ==
    (pc # "parse" /\ MalformedEstimate(fs)) => (pc = "raised" /\ exc.at = "parse")

\* C2: "report" is never a key of the implementation mapping of any group
\* of the table.
C2_ReportNeverAnImplementation ==
    \A g \in Groups : ~DictHas(benchmarks[g], "report")

RowsAgainst(rows, base) == SelectSeq(rows, LAMBDA r : r.base = base)

InsertPanel(size) ==
    IF size = 100 THEN overhead_chart.insert_100 ELSE overhead_chart.insert_1000

\* the overhead step was left by the KeyError of a lookup with one of `keys`
KeyErrorOn(keys) ==
    pc = "raised" /\ exc.at = "overhead" /\ exc.type = "KeyError" /\ exc.key \in keys

\* C3: after the overhead step, a baseline with no time in the table has no
\* rows computed against it, and the step did not raise on looking it up:
\* raw_sled and raw_redb of insert at 100 and at 1000, raw_redb of get,
\* raw_redb_loop of secondary_query.
C3_AbsentBaselineNoRowsNoRaise ==
    OverheadDone =>
        /\ \A size \in {100, 1000} : \A base \in {"raw_sled", "raw_redb"} :
               ~HasTime(benchmarks.insert, base, size) =>
                   /\ RowsAgainst(InsertPanel(size), base) = << >>
                   /\ ~KeyErrorOn({base, str(size)})
        /\ ~DictHas(benchmarks.get, "raw_redb") =>
               overhead_chart.get = << >> /\ ~KeyErrorOn({"raw_redb"})
        /\ ~DictHas(benchmarks.secondary_query, "raw_redb_loop") =>
               overhead_chart.secondary_query = << >> /\ ~KeyErrorOn({"raw_redb_loop"})

ZeroDivisionAtSpeedup ==
    pc = "raised" /\ exc.at = "speedup" /\ exc.type = "ZeroDivisionError"

\* the insert speedup at `size` has no defined value
NoInsertSpeedup(size) ==
    \/ ~HasTime(benchmarks.insert, "wrapper_redb_loop", size)
    \/ ~HasTime(benchmarks.insert, "wrapper_redb_bulk", size)
    \/ DictAt(DictAt(benchmarks.insert, "wrapper_redb_bulk"), size) = 0

NoGetSpeedup ==
    \/ ~DictHas(benchmarks.get, "wrapper_redb_loop")
    \/ ~DictHas(benchmarks.get, "wrapper_redb_bulk")
    \/ DictAt(benchmarks.get, "wrapper_redb_bulk") = 0

\* C4: after the speedup step, where the fast time is 0 or one of the two
\* times is absent there is no speedup value (for insert at 100 and at 1000,
\* and for get), and the step did not end in a division fault.
C4_NoSpeedupWithoutDivisor ==
    SpeedupDone =>
        /\ \A size \in {100, 1000} :
               NoInsertSpeedup(size) =>
                   /\ \A i \in 1..Len(speedup_chart.insert) : speedup_chart.insert[i].size # size
                   /\ ~ZeroDivisionAtSpeedup
        /\ NoGetSpeedup => speedup_chart.get = << >> /\ ~ZeroDivisionAtSpeedup

\* C5: an overhead value exists only for a comparator that has a time in the
\* table at the key: in the four panels of the overhead chart, and in every
\* row of the raw-vs-zerocopy table for the loop and the bulk comparator.
C5_AbsentComparatorNoOverhead ==
    /\ \A size \in {100, 1000} : \A r \in Range(InsertPanel(size)) :
           HasTime(benchmarks.insert, r.impl, size)
    /\ \A r \in Range(overhead_chart.get) : DictHas(benchmarks.get, r.impl)
    /\ \A r \in Range(overhead_chart.secondary_query) :
           DictHas(benchmarks.secondary_query, r.impl)
    /\ \A r \in Range(raw_vs_zc_table.rows) :
           /\ DictHas(SizedRvz("zerocopy_insert"), r.size)
           /\ DictHas(SizedRvz("zerocopy_bulk_insert"), r.size)

\* (c - b) / b * 100, and 0 for b = 0
OverheadPct(c, b) == IF b = 0 THEN FromInt(0) ELSE Rat((c - b) * 100, b)

\* C6: every overhead computed for a present comparator is (c - b) / b * 100
\* of the comparator time c and the baseline time b of the table, and 0 when
\* b is 0, in the overhead chart (calc_overhead) and in the raw-vs-zerocopy
\* table; neither step ends in a division fault.
C6_OverheadIsPercentage ==
    /\ \A size \in {100, 1000} : \A r \in Range(InsertPanel(size)) :
           r.overhead = OverheadPct(DictAt(DictAt(benchmarks.insert, r.impl), size),
                                    DictAt(DictAt(benchmarks.insert, r.base), size))
    /\ \A r \in Range(overhead_chart.get) :
           r.overhead = OverheadPct(DictAt(benchmarks.get, r.impl),
                                    DictAt(benchmarks.get, r.base))
    /\ \A r \in Range(overhead_chart.secondary_query) :
           r.overhead = OverheadPct(DictAt(benchmarks.secondary_query, r.impl),
                                    DictAt(benchmarks.secondary_query, r.base))
    /\ \A r \in Range(raw_vs_zc_table.rows) :
           /\ DictHas(SizedRvz("zerocopy_insert"), r.size) =>
                  r.loop_overhead = OverheadPct(DictAt(SizedRvz("zerocopy_insert"), r.size),
                                                DictAt(SizedRvz("raw_insert"), r.size))
           /\ DictHas(SizedRvz("zerocopy_bulk_insert"), r.size) =>
                  r.bulk_overhead = OverheadPct(DictAt(SizedRvz("zerocopy_bulk_insert"), r.size),
                                                DictAt(SizedRvz("raw_insert"), r.size))
    /\ (pc = "raised" /\ exc.at \in {"overhead", "raw_vs_zc"}) => exc.type # "ZeroDivisionError"

\* The raw-vs-zerocopy table holds the row of a baseline of 1_000_000 and a
\* loop comparator of 1_200_000, with an overhead of 20.
C6_Witness ==
    \E r \in Range(raw_vs_zc_table.rows) :
        /\ DictHas(SizedRvz("zerocopy_insert"), r.size)
        /\ DictAt(SizedRvz("raw_insert"), r.size) = 1000000
        /\ DictAt(SizedRvz("zerocopy_insert"), r.size) = 1200000
        /\ r.loop_overhead = FromInt(20)

HasPointEstimate(file) ==
    /\ file.state = "ok"
    /\ DictHas(file.json, "mean")
    /\ DictHas(DictAt(file.json, "mean"), "point_estimate")

PointEstimate(file) == DictAt(DictAt(file.json, "mean"), "point_estimate")

\* the size directories of `impl_dirs` named `impl` whose name reads as `size`
SizeDirsAt(impl_dirs, impl, size) ==
    UNION {{s \in Range(e.entries) : s.is_dir /\ ~int(s.name).raised /\ int(s.name).val = size} :
              e \in {x \in impl_dirs : x.name = impl}}

TreeDirOf(g) ==
    IF g = "get" THEN fs.cross_store_get
    ELSE IF g = "bulk" THEN fs.cross_store_bulk
    ELSE fs.cross_store_secondary_query

\* C7: every time of the table is the point_estimate of "mean" of the
\* estimates file at its place in the tree; a place without such an estimate
\* has no entry (so none equal to a made-up 0).
C7_TableValuesAreEstimates ==
    /\ \A i \in 1..Len(benchmarks.insert) : \A j \in 1..Len(benchmarks.insert[i].v) :
           LET impl == benchmarks.insert[i].k
               cell == benchmarks.insert[i].v[j]
           IN  \E s \in SizeDirsAt(Range(fs.cross_store_insert.entries), impl, cell.k) :
                   HasPointEstimate(s.file) /\ cell.v = PointEstimate(s.file)
    /\ \A g \in {"get", "bulk", "secondary_query"} : \A i \in 1..Len(benchmarks[g]) :
           \E e \in Range(TreeDirOf(g).entries) :
               /\ e.name = benchmarks[g][i].k
               /\ HasPointEstimate(e.file)
               /\ benchmarks[g][i].v = PointEstimate(e.file)
    /\ \A i \in 1..Len(benchmarks.raw_vs_zerocopy) :
           LET impl == benchmarks.raw_vs_zerocopy[i].k
               val == benchmarks.raw_vs_zerocopy[i].v
           IN  IF val.is_dict
               THEN \A j \in 1..Len(val.d) :
                        \E s \in SizeDirsAt(Range(fs.redb_raw_vs_zerocopy.entries), impl, val.d[j].k) :
                            HasPointEstimate(s.file) /\ val.d[j].v = PointEstimate(s.file)
               ELSE \E e \in Range(fs.redb_raw_vs_zerocopy.entries) :
                        e.name = impl /\ HasPointEstimate(e.file) /\ val.t = PointEstimate(e.file)

\* C8: every size key of the table, in insert and in raw_vs_zerocopy, is an
\* integer >= 0.
C8_SizeKeysNonNegative ==
    /\ \A i \in 1..Len(benchmarks.insert) : \A size \in KeySet(benchmarks.insert[i].v) : size >= 0
    /\ \A i \in 1..Len(benchmarks.raw_vs_zerocopy) :
           \A size \in KeySet(benchmarks.raw_vs_zerocopy[i].v.d) : size >= 0

\* C9: a line of the insert summary holds a time for 100 and for 1000 only
\* where the table has the entry (each line holds both).
C9_SummaryOnlyForEntries ==
    \A r \in Range(summary.insert) :
        /\ HasTime(benchmarks.insert, r.impl, 100)
        /\ HasTime(benchmarks.insert, r.impl, 1000)

ImplsOf(rows) == [i \in 1..Len(rows) |-> rows[i].impl]

\* C10: once the summary is written, the rows of each group are the
\* implementations of the table in strictly ascending code-point order, and
\* the rows of the raw-vs-zerocopy table are in strictly ascending size
\* order, whatever the order of the listings was.
C10_SummaryRowsSorted ==
    /\ \A g \in {"insert", "get", "secondary_query", "bulk"} :
           /\ \A i \in 1..(Len(summary[g]) - 1) :
                  StrLess(summary[g][i].impl, summary[g][i + 1].impl)
           /\ pc \in {"append", "done"} => Range(ImplsOf(summary[g])) = KeySet(benchmarks[g])
    /\ \A i \in 1..(Len(summary.raw_vs_zerocopy) - 1) :
           summary.raw_vs_zerocopy[i].size < summary.raw_vs_zerocopy[i + 1].size
    /\ pc = "done" =>
           {summary.raw_vs_zerocopy[i].size : i \in 1..Len(summary.raw_vs_zerocopy)}
               = KeySet(SizedRvz("raw_insert"))

\* The summary is written for a table whose insert implementations were
\* listed in another order than the sorted one.
C10_Witness ==
    /\ pc = "done"
    /\ Len(summary.insert) >= 2
    /\ ImplsOf(summary.insert) # DictKeys(benchmarks.insert)

\* The key of the table a group directory is scanned into.
GroupOf(dir_name) ==
    CASE dir_name = "cross_store_insert" -> "insert"
      [] dir_name = "cross_store_get" -> "get"
      [] dir_name = "cross_store_bulk" -> "bulk"
      [] dir_name = "cross_store_secondary_query" -> "secondary_query"
      [] dir_name = "redb_raw_vs_zerocopy" -> "raw_vs_zerocopy"

GroupDirNames == DOMAIN BaseTree

\* Some contents a group directory can have when it is there: nothing, one
\* implementation with an estimate (of sizes, for the groups that have
\* them), and a report directory next to a plain file.
PresentDirs(dir_name) ==
    {GroupDir(<< >>),
     GroupDir(<<Dir("report", Absent, << >>), NonDir("Notes")>>),
     IF dir_name \in {"cross_store_insert", "redb_raw_vs_zerocopy"}
     THEN GroupDir(<<Dir(IF dir_name = "cross_store_insert" THEN "raw_sled" ELSE "raw_insert",
                         Absent, <<Dir("100", Est(1200000), << >>)>>)>>)
     ELSE GroupDir(<<Dir("wrapper_redb_bulk", Est(1200000), << >>)>>)}

\* The scan of the tree with the directory `dir_name` replaced by `dir`
\* returns the present table in every group but the one of `dir_name`.
SameElsewhere(dir_name, dir) ==
    LET other == parse_cross_store_benchmarks([fs EXCEPT ![dir_name] = dir])
    IN  /\ other.raised = "none"
        /\ \A d \in GroupDirNames \ {dir_name} :
               other.ret[GroupOf(d)] = benchmarks[GroupOf(d)]

\* C11: once the scan has run, a group directory that is not there has not
\* made it fail (a failure comes with an unparsable file); when the scan has
\* returned, the table holds that group with an empty mapping, and the other
\* groups are what the scan returns for them when the directory is there.
C11_MissingGroupIsEmpty ==
    \A dir_name \in GroupDirNames :
        ~fs[dir_name].exists =>
            /\ (pc = "raised" /\ exc.at = "parse") => MalformedEstimate(fs)
            /\ pc = "insert_bars" =>
                   /\ benchmarks[GroupOf(dir_name)] = EmptyDict
                   /\ \A dir \in PresentDirs(dir_name) : SameElsewhere(dir_name, dir)

\* The scan has returned a table with a time in get for a tree in which
\* cross_store_bulk is not there.
C11_Witness ==
    /\ pc = "insert_bars"
    /\ ~fs.cross_store_bulk.exists
    /\ benchmarks.get # EmptyDict
    /\ benchmarks.bulk = EmptyDict

\* The orders a listing of distinct entries can be yielded in.
PermsOf(listing) ==
    LET n == Len(listing)
    IN  {[i \in 1..n |-> listing[p[i]]] :
            p \in {q \in [1..n -> 1..n] : \A i, j \in 1..n : q[i] = q[j] => i = j}}

\* an entry with its own listing in another order
EntryReorderings(e) == {[e EXCEPT !.entries = l] : l \in PermsOf(e.entries)}

RECURSIVE InnerReorderings(_)
InnerReorderings(listing) ==
    IF listing = << >> THEN {<< >>}
    ELSE {<<h>> \o t : h \in EntryReorderings(Head(listing)),
                        t \in InnerReorderings(Tail(listing))}

\* The same directory with the listing of every level in another order.
DirReorderings(dir) ==
    {[dir EXCEPT !.entries = l] : l \in UNION {PermsOf(i) : i \in InnerReorderings(dir.entries)}}

\* The same tree as the storage layer can list it.
TreeReorderings(tree) ==
    {[cross_store_insert |-> i, cross_store_get |-> g, cross_store_bulk |-> b,
      cross_store_secondary_query |-> q, redb_raw_vs_zerocopy |-> z] :
        i \in DirReorderings(tree.cross_store_insert),
        g \in DirReorderings(tree.cross_store_get),
        b \in DirReorderings(tree.cross_store_bulk),
        q \in DirReorderings(tree.cross_store_secondary_query),
        z \in DirReorderings(tree.redb_raw_vs_zerocopy)}

\* A dict as the function dict.__eq__ compares: the order of insertion does
\* not count.
AsFunction(d) == [k \in KeySet(d) |-> DictAt(d, k)]

TableAsFunction(table) ==
    [insert |-> [k \in KeySet(table.insert) |-> AsFunction(DictAt(table.insert, k))],
     get |-> AsFunction(table.get),
     bulk |-> AsFunction(table.bulk),
     secondary_query |-> AsFunction(table.secondary_query),
     raw_vs_zerocopy |->
         [k \in KeySet(table.raw_vs_zerocopy) |->
             LET v == DictAt(table.raw_vs_zerocopy, k)
             IN  [is_dict |-> v.is_dict, t |-> v.t, d |-> AsFunction(v.d)]]]

\* C12: when the scan has run, the scan of the same tree listed in any other
\* order ends the same way: with the same error, or with a table equal to
\* the present one (as dicts compare), the shape of every raw_vs_zerocopy
\* implementation included.
C12_ScanOrderIndependent ==
    \A tree \in TreeReorderings(fs) :
        LET other == parse_cross_store_benchmarks(tree)
        IN  /\ pc = "insert_bars" =>
                   /\ other.raised = "none"
                   /\ TableAsFunction(other.ret) = TableAsFunction(benchmarks)
            /\ (pc = "raised" /\ exc.at = "parse") => other.raised = exc.type

\* C13: in every group of the table all implementations have one shape: a
\* size mapping each in insert, a scalar time each in get, bulk and
\* secondary_query, and in raw_vs_zerocopy either all scalar or all sized;
\* and a sized raw_vs_zerocopy entry is not left empty for an implementation
\* that has its estimate directly in its directory.
C13_UniformShapePerGroup ==
    /\ \A i \in 1..Len(benchmarks.insert) : \A size \in KeySet(benchmarks.insert[i].v) :
           size \in Int
    /\ \A g \in {"get", "bulk", "secondary_query"} : \A i \in 1..Len(benchmarks[g]) :
           benchmarks[g][i].v \in Int
    /\ \A i, j \in 1..Len(benchmarks.raw_vs_zerocopy) :
           benchmarks.raw_vs_zerocopy[i].v.is_dict = benchmarks.raw_vs_zerocopy[j].v.is_dict
    /\ \A i \in 1..Len(benchmarks.raw_vs_zerocopy) :
           LET impl == benchmarks.raw_vs_zerocopy[i].k
               val == benchmarks.raw_vs_zerocopy[i].v
           IN  (val.is_dict /\ val.d = EmptyDict) =>
                   \A e \in ImplDirs(fs.redb_raw_vs_zerocopy) :
                       e.name = impl => ~HasPointEstimate(e.file)

\* The names generate_overhead_percentage_chart indexes COLORS with.
ColorIndexNames ==
    {"wrapper_sled", "wrapper_redb_loop", "wrapper_redb_bulk", "zerocopy_redb",
     "zerocopy_redb_bulk"}

\* C14: the overhead step is never left by the KeyError of a color lookup:
\* with a baseline and a comparator in the table, the row is emitted and the
\* step goes on.
C14_ColorLookupNeverFails ==
    OverheadDone => ~KeyErrorOn(ColorIndexNames)

====
